---- MODULE Spec2Model ----
(***************************************************************************)
(* Model of the NMDP SQLite3 demo: the store (db.py), the two mappings and *)
(* the connection (nmdp.py) and the update script (demo.py).               *)
(***************************************************************************)
EXTENDS Integers, Sequences, FiniteSets, TLC

(***************************************************************************)
(* Bounds of the model                                                     *)
(***************************************************************************)
\* longest record stream (data lines of alpha.v3.txt) a release carries
MaxStream == 2
\* most NMDPConnection.commit() calls counted in one client session
MaxCommits == 2

(***************************************************************************)
(* Program constants                                                       *)
(***************************************************************************)
SCHEMA_CODE == 1346653518
SCHEMA_VER == 3
NMDP_FILENAME == "alpha.v3.txt"

(***************************************************************************)
(* Value domains                                                           *)
(***************************************************************************)
Keys == {"A", "B"}
Subtypes == {"x", "y"}
Comments == {"c1", "c2"}
\* naive datetimes of the zip member: (day, second of the day)
Datetimes == {<<1, 0>>, <<1, 1>>}
\* PRAGMA application_id / user_version values a file can carry
AppIds == {0, SCHEMA_CODE}
UserVers == {0, SCHEMA_VER}

NMDPCode(s) == [subtype |-> s]
NMDPFile(m, c) == [modified |-> m, comment |-> c]

NMDPCodeValues == {NMDPCode(s) : s \in Subtypes}
NMDPFileValues == {NMDPFile(m, c) : m \in Datetimes, c \in Comments}

\* a record stream: the (code, subtype) pairs of the data lines, in order
Records == Keys \X Subtypes
Streams == UNION {[1..n -> Records] : n \in 0..MaxStream}

\* a release of the zip file: member timestamp, comment line, data lines
Releases == [modified : Datetimes, comment : Comments, lines : Streams]

(***************************************************************************)
(* Codec: zlib.compress(s.encode('ASCII')) / zlib.decompress(b).decode()   *)
(***************************************************************************)
ZlibCompress(s) == <<"zlib", s>>

\* result of NMDPCodes.__getitem__ and friends: err = "" on success
Ok(v) == [err |-> "", val |-> v]
Raise(e) == [err |-> e, val |-> NMDPCode("")]

ZlibDecompress(b) ==
    IF b[1] = "zlib" THEN [err |-> "", val |-> b[2]]
                     ELSE [err |-> "zlib.error", val |-> ""]

\* a serialisation to the day only
IsoFormat_DropSeconds(dt) == <<"iso", dt[1], "T", 0>>

\* datetime.isoformat() of a naive datetime and datetime.fromisoformat()
IsoFormat(dt) == <<"iso", dt[1], "T", dt[2]>>

FromIsoFormat(t) == <<t[2], t[4]>>

(***************************************************************************)
(* Tables: a table is a function from the primary keys present to the row  *)
(***************************************************************************)
EmptyTable == <<>>

\* INSERT OR IGNORE: a row already there is kept
Upsert_InsertOnly(t, key, row) ==
    [k \in (DOMAIN t) \cup {key} |->
        IF k = key /\ key \notin DOMAIN t THEN row ELSE t[k]]

\* INSERT ... ON CONFLICT (key) DO UPDATE
Upsert(t, key, row) ==
    [k \in (DOMAIN t) \cup {key} |-> IF k = key THEN row ELSE t[k]]

DeleteRow(t, key) == [k \in (DOMAIN t) \ {key} |-> t[k]]

(***************************************************************************)
(* NMDPCodes                                                               *)
(***************************************************************************)
CodesGetItem(t, key) ==
    IF key \notin DOMAIN t
    THEN Raise("KeyError")
    ELSE LET d == ZlibDecompress(t[key])
         IN  IF d.err # "" THEN Raise(d.err) ELSE Ok(NMDPCode(d.val))

CodesSetItem(t, key, value) == Upsert(t, key, ZlibCompress(value.subtype))

\* collections.abc.Mapping.__contains__: try self[key], except KeyError
CodesContains(t, key) ==
    LET r == CodesGetItem(t, key)
    IN  IF r.err = "KeyError" THEN [err |-> "", val |-> FALSE]
        ELSE IF r.err # "" THEN [err |-> r.err, val |-> FALSE]
        ELSE [err |-> "", val |-> TRUE]

\* result: err and the table afterwards
CodesDelItem(t, key) ==
    LET c == CodesContains(t, key)
    IN  IF c.err # "" THEN [err |-> c.err, tab |-> t]
        ELSE IF ~c.val THEN [err |-> "KeyError", tab |-> t]
        ELSE [err |-> "", tab |-> DeleteRow(t, key)]

CodesIter(t) == DOMAIN t

CodesLen(t) == Cardinality(DOMAIN t)

(***************************************************************************)
(* NMDPFiles                                                               *)
(***************************************************************************)
FilesGetItem(t, key) ==
    IF key \notin DOMAIN t
    THEN [err |-> "KeyError", val |-> NMDPFile(<<0, 0>>, "")]
    ELSE [err |-> "",
          val |-> NMDPFile(FromIsoFormat(t[key].modified), t[key].comment)]

FilesSetItem(t, key, value) ==
    Upsert(t, key, [modified |-> IsoFormat(value.modified),
                    comment |-> value.comment])

FilesContains(t, key) ==
    LET r == FilesGetItem(t, key)
    IN  IF r.err = "KeyError" THEN [err |-> "", val |-> FALSE]
        ELSE [err |-> r.err, val |-> r.err = ""]

FilesDelItem(t, key) ==
    LET c == FilesContains(t, key)
    IN  IF c.err # "" THEN [err |-> c.err, tab |-> t]
        ELSE IF ~c.val THEN [err |-> "KeyError", tab |-> t]
        ELSE [err |-> "", tab |-> DeleteRow(t, key)]

FilesIter(t) == DOMAIN t

FilesLen(t) == Cardinality(DOMAIN t)

(***************************************************************************)
(* State                                                                   *)
(***************************************************************************)
VARIABLES
    disk,           \* the database file: committed content seen by any session
    con,            \* the sqlite3.Connection of the running program
    need_optimize,  \* NMDPConnection.need_optimize
    db_calls,       \* calls made on self.db by the last NMDPConnection handler
    zip,            \* the release published at NMDP_URL
    pc,             \* position of demo.py / of the client program
    error,          \* name of the uncaught exception, "" if none
    need_to_update, \* demo.py need_to_update
    line_no,        \* index of the next data line of the record stream
    db_codes_to_remove,
    db_codes_added,
    db_codes_changed,
    db_codes_removed,
    to_visit,       \* keys the removal loop has not reached yet
    outcome,        \* how the last run ended
    pre,            \* committed tables when the run (or session) started
    last_commit,    \* tables at the last commit() of the session, or at open
    n_commit,       \* NMDPConnection.commit() calls of the session
    n_optimize,     \* PRAGMA OPTIMIZE executions of the session
    n_set,          \* mapping __setitem__ calls of the run
    n_del,          \* mapping __delitem__ calls of the run
    n_visible,      \* times the committed tables changed during the run
    rerun,          \* an earlier run committed the release still published
    last_op,        \* the client's last call on the connection or a mapping
    pending_found,  \* the last rollback() or __del__ dropped uncommitted writes
    retry,          \* the last run failed after need_to_update on this release
    last_key,       \* key of the client's last mapping call
    last_val,       \* value the client's last __setitem__ was given
    ret             \* what the client's last read returned or raised

storeVars == <<disk, con, need_optimize, db_calls>>
runVars == <<pc, error, need_to_update, line_no, db_codes_to_remove,
             db_codes_added, db_codes_changed, db_codes_removed, to_visit,
             outcome>>
histVars == <<pre, last_commit, n_commit, n_optimize, n_set, n_del,
              n_visible, rerun, last_op, pending_found, retry, last_key,
              last_val, ret>>
vars == <<storeVars, zip, runVars, histVars>>

(***************************************************************************)
(* Stores                                                                  *)
(***************************************************************************)
Payloads == {ZlibCompress(s) : s \in Subtypes}

TablesOver(K, Rows) == UNION {[D -> Rows] : D \in SUBSET K}

\* a subtype_compressed blob that zlib.decompress rejects
CorruptPayload == <<"raw", "?">>

\* Codes tables: every row written by __setitem__, or the row of "A" damaged
CodesTables ==
    TablesOver(Keys, Payloads)
    \cup {Upsert(t, "A", CorruptPayload) :
              t \in TablesOver(Keys \ {"A"}, Payloads)}

FileRows == [modified : {IsoFormat(m) : m \in Datetimes}, comment : Comments]

FilesTables == TablesOver({NMDP_FILENAME}, FileRows)

Tables(d) == [files |-> d.files, codes |-> d.codes]

\* has_tables: the file holds the tables Files and Codes
NoStore == [exists |-> FALSE, has_tables |-> FALSE, app_id |-> 0,
            user_ver |-> 0, files |-> EmptyTable, codes |-> EmptyTable]

\* stores written by this program
NMDPStores == [exists : {TRUE}, has_tables : {TRUE}, app_id : {SCHEMA_CODE},
               user_ver : {SCHEMA_VER}, files : FilesTables,
               codes : CodesTables]

\* database files of another application or of another schema version,
\* with the two tables or without them
ForeignStores ==
    {d \in [exists : {TRUE}, has_tables : BOOLEAN, app_id : AppIds,
            user_ver : UserVers, files : {EmptyTable},
            codes : {EmptyTable,
                     CodesSetItem(EmptyTable, "A", NMDPCode("x"))}] :
        /\ ~(d.app_id = SCHEMA_CODE /\ d.user_ver = SCHEMA_VER)
        /\ (d.codes # EmptyTable => d.has_tables)}

\* a store of this program whose row of "A" is damaged
CorruptStores ==
    {d \in NMDPStores : /\ d.files = EmptyTable
                        /\ DOMAIN d.codes = {"A"}
                        /\ d.codes["A"] = CorruptPayload}

ClosedCon == [open |-> FALSE, files |-> EmptyTable, codes |-> EmptyTable]

(***************************************************************************)
(* sqlite3.Connection with autocommit=False: a transaction is always open, *)
(* statements act on the transaction's view, commit publishes the view,    *)
(* rollback and close drop it.  s = [disk, con, calls, optimized]          *)
(***************************************************************************)
Db(d, c) == [disk |-> d, con |-> c, calls |-> <<>>, optimized |-> 0]

\* a connection in autocommit mode: every statement is published at once
SqlExecute_Autocommit(s, files, codes) ==
    [s EXCEPT !.con = [s.con EXCEPT !.files = files, !.codes = codes],
              !.disk = [s.disk EXCEPT !.files = files, !.codes = codes]]

\* an INSERT, UPDATE or DELETE statement leaving the tables as given
SqlExecute(s, files, codes) ==
    [s EXCEPT !.con = [s.con EXCEPT !.files = files, !.codes = codes]]

SqlCommit(s) ==
    [s EXCEPT !.disk = [s.disk EXCEPT !.files = s.con.files,
                                      !.codes = s.con.codes],
              !.calls = Append(s.calls, "commit")]

SqlRollback(s) ==
    [s EXCEPT !.con = [s.con EXCEPT !.files = s.disk.files,
                                    !.codes = s.disk.codes],
              !.calls = Append(s.calls, "rollback")]

\* a maintenance pass that resets the header's user_version
SqlOptimize_ResetVersion(s) ==
    [s EXCEPT !.optimized = s.optimized + 1,
              !.calls = Append(s.calls, "optimize"),
              !.disk = [s.disk EXCEPT !.user_ver = 0]]

\* PRAGMA OPTIMIZE: may refresh planner statistics, no row of Files or Codes
SqlOptimize(s) ==
    [s EXCEPT !.optimized = s.optimized + 1,
              !.calls = Append(s.calls, "optimize")]

SqlClose(s) ==
    [s EXCEPT !.con = ClosedCon, !.calls = Append(s.calls, "close")]

(***************************************************************************)
(* NMDPConnection                                                          *)
(***************************************************************************)
\* commit(): result is the db state and the new need_optimize
ConnCommit(s, flag) == [db |-> SqlCommit(s), need_optimize |-> TRUE]

\* rollback() that also forgets the commits of the session
ConnRollback_ClearFlag(s, flag) ==
    [db |-> SqlRollback(s), need_optimize |-> FALSE]

\* rollback() that does nothing
ConnRollback_NoOp(s, flag) == [db |-> s, need_optimize |-> flag]

\* rollback()
ConnRollback(s, flag) == [db |-> SqlRollback(s), need_optimize |-> flag]

\* __del__ committing where it should roll back
ConnDel_CommitFirst(s, flag) ==
    LET s1 == SqlCommit(s)
        s2 == IF flag THEN SqlCommit(SqlOptimize(s1)) ELSE s1
    IN  [db |-> SqlClose(s2), need_optimize |-> flag]

\* __del__ without the rollback
ConnDel_NoRollback(s, flag) ==
    LET s2 == IF flag THEN SqlCommit(SqlOptimize(s)) ELSE s
    IN  [db |-> SqlClose(s2), need_optimize |-> flag]

\* __del__
ConnDel(s, flag) ==
    LET s1 == SqlRollback(s)
        s2 == IF flag THEN SqlCommit(SqlOptimize(s1)) ELSE s1
    IN  [db |-> SqlClose(s2), need_optimize |-> flag]

(***************************************************************************)
(* db.py                                                                   *)
(***************************************************************************)
\* setup_db raises when CREATE TABLE Files finds the table
SetupDbError(d) ==
    IF d.exists /\ d.has_tables THEN "OperationalError" ELSE ""

\* setup_db that leaves user_version alone
SetupDb_NoVersion(d) ==
    IF SetupDbError(d) # "" THEN d
    ELSE [exists |-> TRUE, has_tables |-> TRUE, app_id |-> SCHEMA_CODE,
          user_ver |-> d.user_ver, files |-> EmptyTable,
          codes |-> EmptyTable]

\* setup_db that writes its pragmas and tables over whatever is there
SetupDb_Overwrite(d) ==
    [exists |-> TRUE, has_tables |-> TRUE, app_id |-> SCHEMA_CODE,
     user_ver |-> SCHEMA_VER, files |-> EmptyTable, codes |-> EmptyTable]

\* setup_db: sqlite3.connect creates the file; pragmas and tables committed.
\* When a CREATE TABLE raises, the connection is dropped uncommitted and the
\* file keeps its content
SetupDb(d) ==
    IF SetupDbError(d) # "" THEN d
    ELSE [exists |-> TRUE, has_tables |-> TRUE, app_id |-> SCHEMA_CODE,
          user_ver |-> SCHEMA_VER, files |-> EmptyTable,
          codes |-> EmptyTable]

\* open_db without the user_version check
OpenDbCheck_NoVersion(d) ==
    IF d.app_id # SCHEMA_CODE THEN "WrongIdentifier" ELSE ""

\* open_db: "" when the NMDPConnection is returned, else the check that exits
OpenDbCheck(d) ==
    IF d.app_id # SCHEMA_CODE THEN "WrongIdentifier"
    ELSE IF d.user_ver # SCHEMA_VER THEN "UnsupportedVersion"
    ELSE ""

\* the connection open_db hands to NMDPConnection(db=con)
Connect(d) == [open |-> TRUE, files |-> d.files, codes |-> d.codes]

\* open_db: sqlite3.connect creates a missing file, empty; then the checks
OpenDb(d) ==
    LET d1 == [d EXCEPT !.exists = TRUE]
        chk == OpenDbCheck(d1)
    IN  [disk |-> d1, err |-> chk,
         con |-> IF chk = "" THEN Connect(d1) ELSE ClosedCon]

(***************************************************************************)
(* Initial states                                                          *)
(***************************************************************************)
\* no mapping call made yet: no argument, no result
NoValue == [subtype |-> ""]
NoReturn == [err |-> "", val |-> NoValue]

NoRun ==
    /\ error = ""
    /\ need_to_update = FALSE
    /\ line_no = 1
    /\ db_codes_to_remove = {}
    /\ db_codes_added = {}
    /\ db_codes_changed = EmptyTable
    /\ db_codes_removed = EmptyTable
    /\ to_visit = {}
    /\ outcome = ""

NoHistory ==
    /\ n_commit = 0
    /\ n_optimize = 0
    /\ n_set = 0
    /\ n_del = 0
    /\ n_visible = 0

Init ==
    /\ disk \in {NoStore} \cup NMDPStores \cup ForeignStores
    /\ con = ClosedCon
    /\ need_optimize = FALSE
    /\ db_calls = <<>>
    /\ zip \in Releases
    /\ pc = "idle"
    /\ NoRun
    /\ NoHistory
    /\ pre = Tables(disk)
    /\ last_commit = Tables(disk)
    /\ rerun = FALSE
    /\ last_op = ""
    /\ pending_found = FALSE
    /\ retry = FALSE
    /\ last_key = ""
    /\ last_val = NoValue
    /\ ret = NoReturn

(***************************************************************************)
(* demo.py                                                                 *)
(***************************************************************************)
Changed(d1, d2) == IF Tables(d1) # Tables(d2) THEN 1 ELSE 0

\* lines 101-106: create the database when missing, then open_db
StartRun ==
    /\ pc = "idle"
    /\ LET d1 == IF disk.exists THEN disk ELSE SetupDb(disk)
           o == OpenDb(d1)
       IN  /\ disk' = o.disk
           /\ con' = o.con
           /\ pc' = IF o.err = "" THEN "check" ELSE "done"
           /\ error' = o.err
           /\ outcome' = IF o.err = "" THEN "" ELSE "open-failed"
           /\ last_commit' = Tables(o.disk)
           /\ n_visible' = Changed(disk, o.disk)
    /\ need_optimize' = FALSE
    /\ db_calls' = <<>>
    /\ pre' = Tables(disk)
    /\ n_commit' = 0 /\ n_optimize' = 0 /\ n_set' = 0 /\ n_del' = 0
    /\ UNCHANGED <<zip, need_to_update, line_no, db_codes_to_remove,
                   db_codes_added, db_codes_changed, db_codes_removed,
                   to_visit, rerun, retry, last_op, last_key, last_val, ret,
                   pending_found>>

\* the test without its comment part
NeedToUpdate_IgnoreComment(files, rel) ==
    LET c == FilesContains(files, NMDP_FILENAME)
        g == FilesGetItem(files, NMDP_FILENAME)
    IN  ~ ( /\ c.val
            /\ g.val.modified = rel.modified )

\* lines 177-189: the three-part test on nmdp_db.files[NMDP_FILENAME]
NeedToUpdate(files, rel) ==
    LET c == FilesContains(files, NMDP_FILENAME)
        g == FilesGetItem(files, NMDP_FILENAME)
    IN  ~ ( /\ c.val
            /\ g.val.modified = rel.modified
            /\ g.val.comment = rel.comment )

\* lines 177-195
CheckUpdate ==
    /\ pc = "check"
    /\ need_to_update' = NeedToUpdate(con.files, zip)
    /\ pc' = IF need_to_update' THEN "write_file" ELSE "exiting"
    /\ outcome' = IF need_to_update' THEN "" ELSE "up-to-date"
    /\ UNCHANGED <<storeVars, zip, histVars, error, line_no,
                   db_codes_to_remove, db_codes_added, db_codes_changed,
                   db_codes_removed, to_visit>>

\* lines 202-205
WriteFileRecord ==
    /\ pc = "write_file"
    /\ LET s == SqlExecute(Db(disk, con),
                            FilesSetItem(con.files, NMDP_FILENAME,
                                         NMDPFile(zip.modified, zip.comment)),
                            con.codes)
       IN  /\ disk' = s.disk
           /\ con' = s.con
           /\ n_visible' = n_visible + Changed(disk, s.disk)
    /\ n_set' = n_set + 1
    /\ pc' = "snapshot"
    /\ UNCHANGED <<need_optimize, db_calls, zip, error, need_to_update,
                   line_no, db_codes_to_remove, db_codes_added,
                   db_codes_changed, db_codes_removed, to_visit, outcome,
                   pre, last_commit, n_commit, n_optimize, n_del, rerun, retry,
                   last_op, last_key, last_val, ret, pending_found>>

\* lines 209-213
SnapshotKeys ==
    /\ pc = "snapshot"
    /\ db_codes_to_remove' = CodesIter(con.codes)
    /\ db_codes_added' = {}
    /\ db_codes_changed' = EmptyTable
    /\ line_no' = 1
    /\ pc' = "loop"
    /\ UNCHANGED <<storeVars, zip, histVars, error, need_to_update,
                   db_codes_removed, to_visit, outcome>>

\* the loop's variables: st = [codes, to_remove, added, changed, sets, err]

\* a later occurrence of a code this run added is not written again
ClassifyNew_FirstWins(st, file_code, file_code_obj) ==
    IF file_code \in st.added
    THEN st
    ELSE [st EXCEPT !.added = st.added \cup {file_code},
                    !.codes = CodesSetItem(st.codes, file_code, file_code_obj),
                    !.sets = st.sets + 1]

\* lines 231-234: the code is not in db_codes_to_remove
ClassifyNew(st, file_code, file_code_obj) ==
    [st EXCEPT !.added = st.added \cup {file_code},
               !.codes = CodesSetItem(st.codes, file_code, file_code_obj),
               !.sets = st.sets + 1]

\* the stored code is not read: a code in db_codes_to_remove is kept as is
ClassifySurvivor_NoRead(st, file_code, file_code_obj) ==
    [st EXCEPT !.to_remove = st.to_remove \ {file_code}]

\* the comparison with the stored code is left out
ClassifySurvivor_NoCompare(st, file_code, file_code_obj) ==
    LET rem == st.to_remove \ {file_code}
        old == CodesGetItem(st.codes, file_code)
    IN  IF old.err # ""
        THEN [st EXCEPT !.to_remove = rem, !.err = old.err]
        ELSE [st EXCEPT !.to_remove = rem,
                        !.changed = Upsert(st.changed, file_code,
                                           <<old.val, file_code_obj>>),
                        !.codes = CodesSetItem(st.codes, file_code,
                                               file_code_obj),
                        !.sets = st.sets + 1]

\* lines 235-252: the code is in db_codes_to_remove
ClassifySurvivor(st, file_code, file_code_obj) ==
    LET rem == st.to_remove \ {file_code}
        old == CodesGetItem(st.codes, file_code)
    IN  IF old.err # ""
        THEN [st EXCEPT !.to_remove = rem, !.err = old.err]
        ELSE IF old.val # file_code_obj
        THEN [st EXCEPT !.to_remove = rem,
                        !.changed = Upsert(st.changed, file_code,
                                           <<old.val, file_code_obj>>),
                        !.codes = CodesSetItem(st.codes, file_code,
                                               file_code_obj),
                        !.sets = st.sets + 1]
        ELSE [st EXCEPT !.to_remove = rem]

\* lines 230-252, one record
ClassifyRecord(st, file_code, file_code_obj) ==
    IF file_code \notin st.to_remove
    THEN ClassifyNew(st, file_code, file_code_obj)
    ELSE ClassifySurvivor(st, file_code, file_code_obj)

\* lines 216-252: one iteration of the loop over the data lines
ProcessLine ==
    /\ pc = "loop"
    /\ line_no <= Len(zip.lines)
    /\ LET rec == zip.lines[line_no]
           st == ClassifyRecord(
                   [codes |-> con.codes, to_remove |-> db_codes_to_remove,
                    added |-> db_codes_added, changed |-> db_codes_changed,
                    sets |-> 0, err |-> ""],
                   rec[1], NMDPCode(rec[2]))
           s == SqlExecute(Db(disk, con), con.files, st.codes)
       IN  /\ disk' = s.disk
           /\ con' = s.con
           /\ n_visible' = n_visible + Changed(disk, s.disk)
           /\ db_codes_to_remove' = st.to_remove
           /\ db_codes_added' = st.added
           /\ db_codes_changed' = st.changed
           /\ n_set' = n_set + st.sets
           /\ error' = st.err
           /\ pc' = IF st.err = "" THEN "loop" ELSE "aborted"
           /\ line_no' = IF st.err = "" THEN line_no + 1 ELSE line_no
    /\ UNCHANGED <<need_optimize, db_calls, zip, need_to_update,
                   db_codes_removed, to_visit, outcome, pre, last_commit,
                   n_commit, n_optimize, n_del, rerun, retry, last_op,
                   last_key, last_val, ret, pending_found>>

\* lines 254-263: the stream is exhausted, the removal loop starts
EndOfStream ==
    /\ pc = "loop"
    /\ line_no > Len(zip.lines)
    /\ db_codes_removed' = EmptyTable
    /\ to_visit' = db_codes_to_remove
    /\ pc' = "remove"
    /\ UNCHANGED <<storeVars, zip, histVars, error, need_to_update, line_no,
                   db_codes_to_remove, db_codes_added, db_codes_changed,
                   outcome>>

\* the delete made before the stored code is captured
RemoveOne_DeleteFirst(st, code_to_remove) ==
    LET del == CodesDelItem(st.codes, code_to_remove)
        old == CodesGetItem(del.tab, code_to_remove)
    IN  IF del.err # "" THEN [st EXCEPT !.err = del.err]
        ELSE IF old.err # ""
        THEN [st EXCEPT !.dels = st.dels + 1, !.codes = del.tab,
                        !.err = old.err]
        ELSE [st EXCEPT !.removed = Upsert(st.removed, code_to_remove, old.val),
                        !.dels = st.dels + 1,
                        !.codes = del.tab]

\* lines 264-266, one key: capture the stored code, then delete it
\* st = [codes, removed, dels, err]
RemoveOne(st, code_to_remove) ==
    LET old == CodesGetItem(st.codes, code_to_remove)
        del == CodesDelItem(st.codes, code_to_remove)
    IN  IF old.err # "" THEN [st EXCEPT !.err = old.err]
        ELSE IF del.err # ""
        THEN [st EXCEPT !.removed = Upsert(st.removed, code_to_remove, old.val),
                        !.dels = st.dels + 1,
                        !.err = del.err]
        ELSE [st EXCEPT !.removed = Upsert(st.removed, code_to_remove, old.val),
                        !.dels = st.dels + 1,
                        !.codes = del.tab]

\* lines 264-266: one iteration over the set, in any order
RemoveCode ==
    /\ pc = "remove"
    /\ \E code_to_remove \in to_visit :
         LET st == RemoveOne([codes |-> con.codes, removed |-> db_codes_removed,
                              dels |-> 0, err |-> ""], code_to_remove)
             s == SqlExecute(Db(disk, con), con.files, st.codes)
         IN  /\ disk' = s.disk
             /\ con' = s.con
             /\ n_visible' = n_visible + Changed(disk, s.disk)
             /\ db_codes_removed' = st.removed
             /\ n_del' = n_del + st.dels
             /\ error' = st.err
             /\ pc' = IF st.err = "" THEN "remove" ELSE "aborted"
             /\ to_visit' = to_visit \ {code_to_remove}
    /\ UNCHANGED <<need_optimize, db_calls, zip, need_to_update, line_no,
                   db_codes_to_remove, db_codes_added, db_codes_changed,
                   outcome, pre, last_commit, n_commit, n_optimize, n_set,
                   rerun, retry, last_op, last_key, last_val, ret,
                   pending_found>>

\* line 269: nmdp_db.commit()
CommitRun ==
    /\ pc = "remove"
    /\ to_visit = {}
    /\ LET r == ConnCommit(Db(disk, con), need_optimize)
       IN  /\ disk' = r.db.disk
           /\ con' = r.db.con
           /\ db_calls' = r.db.calls
           /\ need_optimize' = r.need_optimize
           /\ n_visible' = n_visible + Changed(disk, r.db.disk)
           /\ last_commit' = Tables(r.db.disk)
    /\ n_commit' = n_commit + 1
    /\ pc' = "del"
    /\ UNCHANGED <<zip, error, need_to_update, line_no, db_codes_to_remove,
                   db_codes_added, db_codes_changed, db_codes_removed,
                   to_visit, outcome, pre, n_optimize, n_set, n_del, rerun,
                   retry, last_op, last_key, last_val, ret, pending_found>>

\* the NMDPConnection is collected: __del__ runs
Teardown ==
    LET r == ConnDel(Db(disk, con), need_optimize)
    IN  /\ disk' = r.db.disk
        /\ con' = r.db.con
        /\ db_calls' = r.db.calls
        /\ need_optimize' = r.need_optimize
        /\ n_optimize' = n_optimize + r.db.optimized
        /\ n_visible' = n_visible + Changed(disk, r.db.disk)
        /\ pending_found' = (Tables(con) # Tables(disk))

\* line 270: del nmdp_db, then the summary is printed (lines 272-290)
DelDb ==
    /\ pc = "del"
    /\ Teardown
    /\ pc' = "done"
    /\ outcome' = "reconciled"
    /\ UNCHANGED <<zip, error, need_to_update, line_no, db_codes_to_remove,
                   db_codes_added, db_codes_changed, db_codes_removed,
                   to_visit, pre, last_commit, n_commit, n_set, n_del, rerun,
                   retry, last_op, last_key, last_val, ret>>

\* an exception of the storage engine, or of the download and the parsing
\* before the check, leaves the script: no statement of demo.py catches it
Fault ==
    /\ pc \in {"check", "write_file", "snapshot", "loop", "remove"}
    /\ error' = "StorageIOError"
    /\ pc' = "aborted"
    /\ UNCHANGED <<storeVars, zip, histVars, need_to_update, line_no,
                   db_codes_to_remove, db_codes_added, db_codes_changed,
                   db_codes_removed, to_visit, outcome>>

\* the interpreter shuts down with nmdp_db still alive: __del__ runs
InterpreterExit ==
    /\ pc \in {"exiting", "aborted"}
    /\ Teardown
    /\ pc' = "done"
    /\ outcome' = IF pc = "aborted" THEN "aborted" ELSE outcome
    /\ UNCHANGED <<zip, error, need_to_update, line_no, db_codes_to_remove,
                   db_codes_added, db_codes_changed, db_codes_removed,
                   to_visit, pre, last_commit, n_commit, n_set, n_del, rerun,
                   retry, last_op, last_key, last_val, ret>>

\* the process is gone: its variables with it
ProcessExit ==
    /\ pc = "done"
    /\ pc' = "idle"
    /\ error' = ""
    /\ need_to_update' = FALSE
    /\ line_no' = 1
    /\ db_codes_to_remove' = {}
    /\ db_codes_added' = {}
    /\ db_codes_changed' = EmptyTable
    /\ db_codes_removed' = EmptyTable
    /\ to_visit' = {}
    /\ outcome' = ""
    /\ n_commit' = 0 /\ n_optimize' = 0 /\ n_set' = 0 /\ n_del' = 0
    /\ n_visible' = 0
    /\ pre' = Tables(disk)
    /\ last_commit' = Tables(disk)
    /\ db_calls' = <<>>
    /\ pending_found' = FALSE
    /\ rerun' = IF outcome = "reconciled" THEN TRUE ELSE rerun
    /\ retry' = IF outcome = "aborted" THEN (need_to_update \/ retry)
                                       ELSE FALSE
    /\ UNCHANGED <<disk, con, need_optimize, zip, last_op, last_key,
                   last_val, ret>>

\* the releases one edit away: another timestamp, another comment line, one
\* data line more at the end or the last data line dropped
NextReleases(rel) ==
    {r \in Releases :
        \/ r.modified # rel.modified /\ r.comment = rel.comment
                                     /\ r.lines = rel.lines
        \/ r.comment # rel.comment /\ r.modified = rel.modified
                                   /\ r.lines = rel.lines
        \/ r.modified = rel.modified /\ r.comment = rel.comment
           /\ \/ Len(r.lines) = Len(rel.lines) + 1
                 /\ SubSeq(r.lines, 1, Len(rel.lines)) = rel.lines
              \/ Len(rel.lines) = Len(r.lines) + 1
                 /\ SubSeq(rel.lines, 1, Len(r.lines)) = r.lines}

\* NMDP publishes another zip file at NMDP_URL
NewRelease ==
    /\ pc = "idle"
    /\ zip' \in NextReleases(zip)
    /\ rerun' = FALSE
    /\ retry' = FALSE
    /\ UNCHANGED <<storeVars, runVars, pre, last_commit, n_commit, n_optimize,
                   n_set, n_del, n_visible, last_op, last_key, last_val, ret,
                   pending_found>>

Next ==
    \/ StartRun
    \/ CheckUpdate
    \/ WriteFileRecord
    \/ SnapshotKeys
    \/ ProcessLine
    \/ EndOfStream
    \/ RemoveCode
    \/ CommitRun
    \/ DelDb
    \/ Fault
    \/ InterpreterExit
    \/ ProcessExit
    \/ NewRelease

Spec == Init /\ [][Next]_vars

(***************************************************************************)
(* A client program of the nmdp package: open_db, then any calls on the    *)
(* two mappings and on the connection, until the connection is collected   *)
(***************************************************************************)
InitClient ==
    /\ disk \in {NoStore, SetupDb(NoStore)} \cup ForeignStores
                \cup CorruptStores
    /\ con = ClosedCon
    /\ need_optimize = FALSE
    /\ db_calls = <<>>
    /\ zip = [modified |-> <<1, 0>>, comment |-> "c1", lines |-> <<>>]
    /\ pc = "idle"
    /\ NoRun
    /\ NoHistory
    /\ pre = Tables(disk)
    /\ last_commit = Tables(disk)
    /\ rerun = FALSE
    /\ last_op = ""
    /\ pending_found = FALSE
    /\ retry = FALSE
    /\ last_key = ""
    /\ last_val = NoValue
    /\ ret = NoReturn

clientLocals == <<zip, need_to_update, line_no, db_codes_to_remove,
                  db_codes_added, db_codes_changed, db_codes_removed,
                  to_visit, rerun, retry>>

\* the call was not a call on a mapping
NoCall ==
    /\ last_key' = ""
    /\ last_val' = NoValue
    /\ ret' = NoReturn

\* setup_db(path): when it raises, the client ends on the exception
ClientSetup ==
    /\ pc = "idle"
    /\ disk' = SetupDb(disk)
    /\ error' = SetupDbError(disk)
    /\ pc' = IF SetupDbError(disk) = "" THEN "idle" ELSE "done"
    /\ outcome' = IF SetupDbError(disk) = "" THEN "" ELSE "setup-failed"
    /\ last_op' = "setup"
    /\ NoCall
    /\ db_calls' = <<>>
    /\ pending_found' = FALSE
    /\ UNCHANGED <<con, need_optimize, clientLocals, pre, last_commit,
                   n_commit, n_optimize, n_set, n_del, n_visible>>

\* nmdp_db = open_db(path)
ClientOpen ==
    /\ pc = "idle"
    /\ LET o == OpenDb(disk)
       IN  /\ disk' = o.disk
           /\ con' = o.con
           /\ pc' = IF o.err = "" THEN "client" ELSE "done"
           /\ error' = o.err
           /\ outcome' = IF o.err = "" THEN "" ELSE "open-failed"
           /\ last_commit' = Tables(o.disk)
    /\ need_optimize' = FALSE
    /\ db_calls' = <<>>
    /\ last_op' = "open"
    /\ NoCall
    /\ n_commit' = 0 /\ n_optimize' = 0
    /\ UNCHANGED <<clientLocals, pre, n_set, n_del, n_visible,
                   pending_found>>

\* a statement of a mapping ran and left the tables as given
ClientWrite(op, key, value, files, codes, err) ==
    /\ LET s == SqlExecute(Db(disk, con), files, codes)
       IN  /\ disk' = s.disk
           /\ con' = s.con
           /\ db_calls' = s.calls
    /\ last_op' = op
    /\ last_key' = key
    /\ last_val' = value
    /\ ret' = NoReturn
    /\ error' = err
    /\ pending_found' = FALSE
    /\ UNCHANGED <<need_optimize, pc, outcome, clientLocals, pre,
                   last_commit, n_commit, n_optimize, n_set, n_del,
                   n_visible>>

\* nmdp_db.codes[key] = value
ClientSetCode ==
    /\ pc = "client"
    /\ \E key \in Keys, value \in NMDPCodeValues :
         ClientWrite("set", key, value, con.files,
                     CodesSetItem(con.codes, key, value), "")

\* del nmdp_db.codes[key]
ClientDelCode ==
    /\ pc = "client"
    /\ \E key \in Keys :
         LET r == CodesDelItem(con.codes, key)
         IN  ClientWrite("del", key, NoValue, con.files, r.tab, r.err)

\* nmdp_db.files[key] = value
ClientSetFile ==
    /\ pc = "client"
    /\ \E value \in NMDPFileValues :
         ClientWrite("set", NMDP_FILENAME, value,
                     FilesSetItem(con.files, NMDP_FILENAME, value),
                     con.codes, "")

\* del nmdp_db.files[key]
ClientDelFile ==
    /\ pc = "client"
    /\ LET r == FilesDelItem(con.files, NMDP_FILENAME)
       IN  ClientWrite("del", NMDP_FILENAME, NoValue, r.tab, con.codes,
                       r.err)

\* a read of a mapping returned or raised r; the tables are as they were
ClientRead(op, key, r) ==
    /\ last_op' = op
    /\ last_key' = key
    /\ last_val' = NoValue
    /\ ret' = r
    /\ error' = r.err
    /\ db_calls' = <<>>
    /\ pending_found' = FALSE
    /\ UNCHANGED <<disk, con, need_optimize, pc, outcome, clientLocals, pre,
                   last_commit, n_commit, n_optimize, n_set, n_del,
                   n_visible>>

\* nmdp_db.codes[key]
ClientGetCode ==
    /\ pc = "client"
    /\ \E key \in Keys : ClientRead("get", key, CodesGetItem(con.codes, key))

\* key in nmdp_db.codes
ClientContainsCode ==
    /\ pc = "client"
    /\ \E key \in Keys :
         ClientRead("contains", key, CodesContains(con.codes, key))

\* nmdp_db.files[key]
ClientGetFile ==
    /\ pc = "client"
    /\ ClientRead("get", NMDP_FILENAME,
                  FilesGetItem(con.files, NMDP_FILENAME))

\* key in nmdp_db.files
ClientContainsFile ==
    /\ pc = "client"
    /\ ClientRead("contains", NMDP_FILENAME,
                  FilesContains(con.files, NMDP_FILENAME))

\* nmdp_db.commit()
ClientCommit ==
    /\ pc = "client"
    /\ n_commit < MaxCommits
    /\ LET r == ConnCommit(Db(disk, con), need_optimize)
       IN  /\ disk' = r.db.disk
           /\ con' = r.db.con
           /\ db_calls' = r.db.calls
           /\ need_optimize' = r.need_optimize
           /\ last_commit' = Tables(r.db.disk)
    /\ n_commit' = n_commit + 1
    /\ last_op' = "commit"
    /\ NoCall
    /\ error' = ""
    /\ pending_found' = FALSE
    /\ UNCHANGED <<pc, outcome, clientLocals, pre, n_optimize, n_set, n_del,
                   n_visible>>

\* nmdp_db.rollback()
ClientRollback ==
    /\ pc = "client"
    /\ LET r == ConnRollback(Db(disk, con), need_optimize)
       IN  /\ disk' = r.db.disk
           /\ con' = r.db.con
           /\ db_calls' = r.db.calls
           /\ need_optimize' = r.need_optimize
    /\ last_op' = "rollback"
    /\ NoCall
    /\ error' = ""
    /\ pending_found' = (Tables(con) # Tables(disk))
    /\ UNCHANGED <<pc, outcome, clientLocals, pre, last_commit, n_commit,
                   n_optimize, n_set, n_del, n_visible>>

\* the client drops nmdp_db, or ends: __del__ runs
ClientDel ==
    /\ pc = "client"
    /\ Teardown
    /\ pc' = "done"
    /\ outcome' = "closed"
    /\ last_op' = "close"
    /\ NoCall
    /\ error' = ""
    /\ UNCHANGED <<clientLocals, pre, last_commit, n_commit, n_set, n_del>>

\* the client process is gone
ClientExit ==
    /\ pc = "done"
    /\ pc' = "idle"
    /\ error' = ""
    /\ outcome' = ""
    /\ n_commit' = 0 /\ n_optimize' = 0
    /\ last_commit' = Tables(disk)
    /\ db_calls' = <<>>
    /\ pending_found' = FALSE
    /\ last_op' = ""
    /\ NoCall
    /\ UNCHANGED <<disk, con, need_optimize, clientLocals, pre, n_set, n_del,
                   n_visible>>

NextClient ==
    \/ ClientSetup
    \/ ClientOpen
    \/ ClientSetCode
    \/ ClientDelCode
    \/ ClientGetCode
    \/ ClientContainsCode
    \/ ClientSetFile
    \/ ClientDelFile
    \/ ClientGetFile
    \/ ClientContainsFile
    \/ ClientCommit
    \/ ClientRollback
    \/ ClientDel
    \/ ClientExit

SpecClient == InitClient /\ [][NextClient]_vars

(***************************************************************************)
(* Properties                                                              *)
(***************************************************************************)
StreamKeys(lines) == {lines[j][1] : j \in DOMAIN lines}

\* the subtype of the last data line carrying the code
LastAttr(lines, k) ==
    LET j == CHOOSE j1 \in DOMAIN lines :
                /\ lines[j1][1] = k
                /\ \A j2 \in DOMAIN lines : lines[j2][1] = k => j2 <= j1
    IN  lines[j][2]

\* the subtype of the first of the first n data lines carrying the code
FirstAttr(lines, k, n) ==
    LET j == CHOOSE j1 \in 1..n :
                /\ lines[j1][1] = k
                /\ \A j2 \in 1..n : lines[j2][1] = k => j1 <= j2
    IN  lines[j][2]

NoDuplicates(lines) ==
    \A j1, j2 \in DOMAIN lines : lines[j1][1] = lines[j2][1] => j1 = j2

\* the subtype a table holds for a code, read through the mapping
Attr(t, k) == CodesGetItem(t, k).val.subtype

\* what the two mappings show of a pair of tables
Observe(t) ==
    [files |-> [k \in FilesIter(t.files) |-> FilesGetItem(t.files, k)],
     codes |-> [k \in CodesIter(t.codes) |-> CodesGetItem(t.codes, k)]]

Reconciled == pc = "done" /\ outcome = "reconciled"

UpToDate == pc = "done" /\ outcome = "up-to-date"

Aborted == pc = "done" /\ outcome = "aborted"

BeforeCommit == pc \in {"check", "write_file", "snapshot", "loop", "remove",
                        "aborted", "exiting"}

\* the stored FileRecord equals the incoming one
SameFileRecord(files, rel) ==
    /\ NMDP_FILENAME \in DOMAIN files
    /\ files[NMDP_FILENAME].modified = <<"iso", rel.modified[1], "T",
                                         rel.modified[2]>>
    /\ files[NMDP_FILENAME].comment = rel.comment

\* C1: once the run has committed, Codes holds exactly the codes of the
\* stream, each with the subtype of its last data line, whatever it held
\* before and whatever the stream repeats.
C1_LastWriteWins ==
    (pc = "del" \/ Reconciled) =>
        /\ CodesIter(disk.codes) = StreamKeys(zip.lines)
        /\ \A k \in StreamKeys(zip.lines) :
             CodesGetItem(disk.codes, k) = Ok(NMDPCode(LastAttr(zip.lines, k)))

\* a committed run whose stream repeats a code with two subtypes and leaves
\* out a code the store held
C1_Witness ==
    /\ Reconciled
    /\ ~NoDuplicates(zip.lines)
    /\ zip.lines[1][2] # zip.lines[2][2]
    /\ DOMAIN pre.codes \ StreamKeys(zip.lines) # {}

\* C2: a run that a fault aborts before its commit returns leaves, once the
\* connection is torn down, the committed Files and Codes as they were before
\* the run.
C2_AbortRestoresStore == Aborted => Tables(disk) = pre

\* an aborted run that had written the FileRecord and a code and had deleted
\* a code when the fault came
C2_Witness ==
    /\ Aborted
    /\ pending_found
    /\ n_set >= 2
    /\ n_del >= 1

\* C3: for a stream without repeated codes a completed run reports
\* added = stream codes not stored, removed = stored codes not in the stream,
\* changed = codes in both with another subtype, with (old, new) for a
\* changed code and the old code for a removed one.
C3_DiffReport ==
    (Reconciled /\ NoDuplicates(zip.lines)) =>
        LET in == StreamKeys(zip.lines)
            stored == DOMAIN pre.codes
        IN  /\ db_codes_added = in \ stored
            /\ DOMAIN db_codes_removed = stored \ in
            /\ DOMAIN db_codes_changed =
                 {k \in in \cap stored :
                    Attr(pre.codes, k) # LastAttr(zip.lines, k)}
            /\ \A k \in DOMAIN db_codes_changed :
                 db_codes_changed[k] =
                    <<NMDPCode(Attr(pre.codes, k)),
                      NMDPCode(LastAttr(zip.lines, k))>>
            /\ \A k \in DOMAIN db_codes_removed :
                 db_codes_removed[k] = NMDPCode(Attr(pre.codes, k))

\* a completed run over a stream without repeats that changed one code and
\* added another
C3_Witness ==
    /\ Reconciled
    /\ NoDuplicates(zip.lines)
    /\ DOMAIN db_codes_changed # {}
    /\ db_codes_added # {}

\* C4: only the first data line of a code is classified: after n data lines
\* the added codes are the codes seen that the store did not hold before the
\* run, and the changed codes are the stored codes seen whose first data line
\* carries another subtype; a code stored before the run is never added.
C4_FirstOccurrenceClassifies ==
    (pc \in {"loop", "remove", "del"} \/ Reconciled) =>
        LET n == line_no - 1
            seen == {zip.lines[j][1] : j \in 1..n}
        IN  /\ db_codes_added = seen \ DOMAIN pre.codes
            /\ DOMAIN db_codes_changed =
                 {k \in seen \cap DOMAIN pre.codes :
                    Attr(pre.codes, k) # FirstAttr(zip.lines, k, n)}

\* C5: the run is up-to-date exactly when Files holds the incoming timestamp
\* and comment for the member; an up-to-date run issues no set and no delete,
\* never commits, runs no maintenance pass and leaves the store as it was,
\* whatever the stream holds; any other run goes on to reconcile.
C5_UpToDateIsReadOnly ==
    /\ (pc = "exiting" \/ UpToDate) =>
          /\ SameFileRecord(pre.files, zip)
          /\ n_set = 0 /\ n_del = 0 /\ n_commit = 0 /\ n_optimize = 0
          /\ ~need_optimize
          /\ Tables(disk) = pre
    /\ UpToDate => db_calls = <<"rollback", "close">>
    /\ (pc \in {"write_file", "snapshot", "loop", "remove", "del"}
        \/ Reconciled) => ~SameFileRecord(pre.files, zip)

\* an up-to-date run although the stream names a code the store lacks
C5_Witness ==
    /\ UpToDate
    /\ StreamKeys(zip.lines) \ DOMAIN disk.codes # {}

\* C6: when an earlier run committed the release that is still published,
\* the next run is up-to-date: it never reaches the FileRecord write, issues
\* no set, no delete and no commit, and the store stays as it was.
C6_SecondRunUpToDate ==
    rerun =>
        /\ pc \in {"idle", "check", "exiting", "aborted", "done"}
        /\ n_set = 0 /\ n_del = 0 /\ n_commit = 0
        /\ Tables(disk) = pre
        /\ (pc = "done" /\ error = "") => outcome = "up-to-date"

\* the second run over a release with data lines has ended, up-to-date
C6_Witness ==
    /\ rerun
    /\ UpToDate
    /\ zip.lines # <<>>

\* C7: the committed tables change at most once in a run, at the commit:
\* before it they are the pre-run tables after every write and delete, at
\* the commit they become the session's tables in one step, a reconciled run
\* has committed once and an up-to-date or aborted run never.
C7_SingleCommitPoint ==
    /\ BeforeCommit =>
          /\ Tables(disk) = pre
          /\ n_visible = 0
          /\ n_commit = 0
    /\ pc = "del" =>
          /\ Tables(disk) = Tables(con)
          /\ n_visible = 1
          /\ n_commit = 1
    /\ Reconciled => n_visible = 1 /\ n_commit = 1
    /\ (UpToDate \/ Aborted) => n_visible = 0 /\ n_commit = 0

\* the commit has just published the FileRecord, a code written and a code
\* deleted, together
C7_Witness ==
    /\ pc = "del"
    /\ n_set >= 2
    /\ n_del >= 1
    /\ Tables(disk) # pre

\* C8: __del__ rolls back first, then runs PRAGMA OPTIMIZE and commits it
\* exactly when commit() was called in the session, then closes; the pass
\* runs at most once and writes pending at that time never become durable.
C8_TeardownOrder ==
    (pc = "done" /\ last_op = "close") =>
        /\ db_calls = IF n_commit > 0
                      THEN <<"rollback", "optimize", "commit", "close">>
                      ELSE <<"rollback", "close">>
        /\ n_optimize = IF n_commit > 0 THEN 1 ELSE 0
        /\ Tables(disk) = last_commit
        /\ ~con.open

\* a session that committed, wrote again and was torn down with those
\* writes pending
C8_Witness ==
    /\ pc = "done"
    /\ last_op = "close"
    /\ n_commit > 0
    /\ pending_found

\* C9: open_db ends with WrongIdentifier when the application id differs
\* (checked first), with UnsupportedVersion when the id matches and the
\* version differs; then no connection object exists.  A connection exists,
\* and a mapping or connection call runs, only on a store whose id and
\* version both match.
C9_SchemaGuard ==
    LET idOk == disk.app_id = SCHEMA_CODE
        verOk == disk.user_ver = SCHEMA_VER
    IN  /\ con.open => idOk /\ verOk
        /\ last_op \in {"set", "del", "commit", "rollback"} => idOk /\ verOk
        /\ last_op = "open" =>
              /\ ~idOk => error = "WrongIdentifier" /\ ~con.open
              /\ (idOk /\ ~verOk) => error = "UnsupportedVersion" /\ ~con.open
              /\ ~verOk => error # "" /\ ~con.open
              /\ (idOk /\ verOk) => error = "" /\ con.open

\* open_db has refused a store that carries the right id and another version
C9_Witness ==
    /\ last_op = "open"
    /\ error = "UnsupportedVersion"
    /\ disk.app_id = SCHEMA_CODE
    /\ pc = "done"

\* C10: after rollback() both mappings show the content of the last commit
\* of the session, or of its opening when it never committed, and the
\* committed content is that content too.
C10_RollbackDiscards ==
    last_op = "rollback" =>
        /\ Observe(Tables(con)) = Observe(last_commit)
        /\ Tables(disk) = last_commit

\* a rollback() that dropped writes made after a commit of the session
C10_Witness ==
    /\ last_op = "rollback"
    /\ pending_found
    /\ n_commit > 0

(***************************************************************************)
(* Mapping contracts                                                       *)
(***************************************************************************)
\* every key but `key` has the row it had, or none as before
SameOtherRows(t1, t2, key) ==
    /\ (DOMAIN t1) \ {key} = (DOMAIN t2) \ {key}
    /\ \A k \in (DOMAIN t1) \ {key} : t2[k] = t1[k]

Grows(t, key) == IF key \in DOMAIN t THEN 0 ELSE 1

\* C11: a __setitem__ of either mapping adds one entry when the key was
\* absent and none when it was present; a __getitem__ of the key in the same
\* transaction returns a value equal to the one written; the other keys of
\* the mapping and the other table are as before.
C11_SetIsUpsert ==
    [][(pc = "client" /\ last_op' = "set") =>
          IF last_key' \in Keys
          THEN /\ CodesLen(con'.codes)
                    = CodesLen(con.codes) + Grows(con.codes, last_key')
               /\ CodesGetItem(con'.codes, last_key') = Ok(last_val')
               /\ SameOtherRows(con.codes, con'.codes, last_key')
               /\ con'.files = con.files
          ELSE /\ FilesLen(con'.files)
                    = FilesLen(con.files) + Grows(con.files, last_key')
               /\ FilesGetItem(con'.files, last_key')
                    = [err |-> "", val |-> last_val']
               /\ SameOtherRows(con.files, con'.files, last_key')
               /\ con'.codes = con.codes]_vars

\* "A" was overwritten in a session that holds "B" and a file record, and
\* the overwrite is not committed
C11_Witness ==
    /\ pc = "client"
    /\ last_op = "set"
    /\ last_key = "A"
    /\ "A" \in DOMAIN disk.codes
    /\ con.codes["A"] # disk.codes["A"]
    /\ con.codes["A"] = ZlibCompress(last_val.subtype)
    /\ "B" \in DOMAIN con.codes
    /\ NMDP_FILENAME \in DOMAIN con.files

\* the mapping named by a key of the client's call, in a view of the tables
MappingOf(c, key) == IF key \in Keys THEN c.codes ELSE c.files

GetItem(c, key) ==
    IF key \in Keys THEN CodesGetItem(c.codes, key)
                    ELSE FilesGetItem(c.files, key)

Contains(c, key) ==
    IF key \in Keys THEN CodesContains(c.codes, key)
                    ELSE FilesContains(c.files, key)

\* C12: a __delitem__ of an absent key raises KeyError and leaves the
\* mapping as it was; a __delitem__ of a present key removes that row only:
\* one entry less, __getitem__ of the key raises KeyError, the key is not
\* in the mapping, the other rows are as before.  A __getitem__ of an absent
\* key raises KeyError.
C12_DeleteContract ==
    [][/\ (pc = "client" /\ last_op' = "del") =>
            LET t == MappingOf(con, last_key')
                t2 == MappingOf(con', last_key')
            IN  IF last_key' \notin DOMAIN t
                THEN error' = "KeyError" /\ t2 = t
                ELSE /\ error' = ""
                     /\ Cardinality(DOMAIN t2) = Cardinality(DOMAIN t) - 1
                     /\ GetItem(con', last_key').err = "KeyError"
                     /\ Contains(con', last_key').err = ""
                     /\ ~Contains(con', last_key').val
                     /\ SameOtherRows(t, t2, last_key')
       /\ (pc = "client" /\ last_op' = "get"
           /\ last_key' \notin DOMAIN MappingOf(con, last_key')) =>
            ret'.err = "KeyError"]_vars

\* C13: `key in mapping` answers whether the backing table has a row for
\* the key, TRUE for every key with a row and FALSE for every other key,
\* and never raises, whatever the stored payload of the key is.
C13_ContainsIsExistenceCheck ==
    last_op = "contains" =>
        /\ ret.err = ""
        /\ ret.val = (last_key \in DOMAIN MappingOf(con, last_key))

(***************************************************************************)
(* Store creation and identity                                             *)
(***************************************************************************)
\* C14: when setup_db returns, the file carries SCHEMA_CODE and SCHEMA_VER,
\* holds both tables with no row, no connection is left open, and open_db
\* on it passes both checks and returns a connection.
C14_CreateThenOpen ==
    (last_op = "setup" /\ error = "") =>
        /\ disk.exists
        /\ disk.app_id = SCHEMA_CODE
        /\ disk.user_ver = SCHEMA_VER
        /\ disk.has_tables
        /\ FilesLen(disk.files) = 0
        /\ CodesLen(disk.codes) = 0
        /\ ~con.open
        /\ OpenDb(disk).err = ""
        /\ OpenDb(disk).con.open
        /\ OpenDb(disk).disk = disk

\* setup_db has returned and the client has not opened the store yet
C14_Witness ==
    /\ last_op = "setup"
    /\ error = ""
    /\ pc = "idle"
    /\ disk.exists

\* C15 as stated: setup_db on a path where a file exists raises and leaves
\* the file (identifier, version, Files rows, Codes rows) as it was.
C15_CreateFailsOnExisting ==
    [][(pc = "idle" /\ last_op' = "setup" /\ disk.exists) =>
          /\ error' = "OperationalError"
          /\ disk' = disk]_vars

\* C15: setup_db does not look at the path.  It raises, from CREATE TABLE
\* Files, exactly when the file already holds the tables, and then the file
\* is as it was; on a file without the tables (an empty file, a database of
\* another application) it returns and the file carries SCHEMA_CODE,
\* SCHEMA_VER and the two empty tables.
C15_CreateFailsOnExistingTables ==
    [][(pc = "idle" /\ last_op' = "setup") =>
          IF disk.exists /\ disk.has_tables
          THEN /\ error' = "OperationalError"
               /\ disk' = disk
          ELSE /\ error' = ""
               /\ disk'.app_id = SCHEMA_CODE
               /\ disk'.user_ver = SCHEMA_VER
               /\ disk'.has_tables
               /\ Tables(disk') = [files |-> EmptyTable,
                                   codes |-> EmptyTable]]_vars

\* setup_db raised on a store that holds rows
C15_Witness ==
    /\ last_op = "setup"
    /\ error = "OperationalError"
    /\ pc = "done"
    /\ disk.codes # EmptyTable

\* C17: once a file holds the tables setup_db created, no step changes its
\* application_id or user_version, nor removes the file or the tables:
\* opening, reads and writes of the mappings, commit, rollback, whole runs
\* of demo.py and __del__ with its PRAGMA OPTIMIZE included.
C17_IdentityImmutable ==
    [][(disk.exists /\ disk.has_tables) =>
          /\ disk'.exists
          /\ disk'.has_tables
          /\ disk'.app_id = disk.app_id
          /\ disk'.user_ver = disk.user_ver]_vars

\* a run that changed the rows was committed and __del__ ran PRAGMA OPTIMIZE
C17_Witness ==
    /\ pc = "done"
    /\ outcome = "reconciled"
    /\ n_optimize > 0
    /\ Tables(disk) # pre
    /\ disk.app_id = SCHEMA_CODE
    /\ disk.user_ver = SCHEMA_VER

(***************************************************************************)
(* Reconciliation: writes, pending removals, retries, report               *)
(***************************************************************************)
\* the data line the loop is at, and the codes of the lines before it
ThisCode == zip.lines[line_no][1]
ThisSubtype == zip.lines[line_no][2]
SeenBefore == {zip.lines[j][1] : j \in 1..(line_no - 1)}

\* the iteration over a data line, or over a code to remove, ran to its end
LineDone == pc = "loop" /\ line_no' = line_no + 1
RemovalDone == pc = "remove" /\ pc' = "remove" /\ to_visit' # to_visit

\* the store holds the code with the subtype of the data line
StoredEqual == /\ ThisCode \in DOMAIN con.codes
               /\ CodesGetItem(con.codes, ThisCode) = Ok(NMDPCode(ThisSubtype))

\* Codes writes and deletes of the run match its report
CountsMatch ==
    /\ n_set - 1 = Cardinality(db_codes_added)
                   + Cardinality(DOMAIN db_codes_changed)
    /\ n_del = Cardinality(DOMAIN db_codes_removed)

C19_AbortedRunIsRetried ==
    /\ (pc = "aborted" \/ Aborted) => disk.files = pre.files
    /\ (retry /\ pc = "idle") => NeedToUpdate(disk.files, zip)
    /\ retry => (pc # "exiting" /\ outcome # "up-to-date")
    /\ (retry /\ pc \in {"write_file", "snapshot", "loop", "remove", "del"})
          => need_to_update
    /\ (retry /\ pc = "done" /\ error = "") => outcome = "reconciled"

\* the run after a failed one, on the same release, reached its commit and
\* changed the store
C19_Witness ==
    /\ retry
    /\ Reconciled
    /\ Tables(disk) # pre
    /\ n_commit = 1

\* C20: when a run has completed, no code is in two of db_codes_added,
\* db_codes_changed and db_codes_removed, and no removed code occurs in the
\* stream, repeated codes in the stream or not.
C20_ReportSetsDisjoint ==
    Reconciled =>
        /\ db_codes_added \cap DOMAIN db_codes_changed = {}
        /\ db_codes_added \cap DOMAIN db_codes_removed = {}
        /\ DOMAIN db_codes_changed \cap DOMAIN db_codes_removed = {}
        /\ DOMAIN db_codes_removed \cap StreamKeys(zip.lines) = {}

(***************************************************************************)
(* NMDPConnection.need_optimize                                            *)
(***************************************************************************)
\* C21: need_optimize is FALSE in the connection open_db returns, turns
\* TRUE in commit() only, and no rollback() and no call on a mapping turns
\* it FALSE; so __del__ runs PRAGMA OPTIMIZE, once, in every session that
\* called commit(), whatever was rolled back afterwards.
C21_NeedOptimizeMonotonic ==
    [][/\ (last_op' = "open" /\ pc' = "client") => ~need_optimize'
       /\ (pc = "client" /\ ~need_optimize /\ need_optimize') =>
             last_op' = "commit"
       /\ (pc = "client" /\ last_op' = "commit") => need_optimize'
       /\ (pc = "client" /\ need_optimize) => need_optimize'
       /\ (pc = "client" /\ last_op' = "close") =>
             /\ n_optimize' = IF n_commit > 0 THEN 1 ELSE 0
             /\ need_optimize = (n_commit > 0)]_vars

\* a rollback() that dropped writes made after a commit() left the flag set
C21_Witness ==
    /\ pc = "client"
    /\ last_op = "rollback"
    /\ pending_found
    /\ n_commit = 1
    /\ need_optimize

(***************************************************************************)
(* Undecodable payloads                                                    *)
(***************************************************************************)
\* the codes of a table whose subtype_compressed zlib cannot decompress
Undecodable(t) == {k \in DOMAIN t : ZlibDecompress(t[k]).err # ""}

\* C22: a run that reaches its commit has read, and so decompressed, every
\* code stored before it: compared at its first data line or captured before
\* its removal.  Hence a run on a store with an undecodable payload that is
\* not up-to-date never commits: unless another failure stops it first it
\* ends on zlib.error, at the data line of the damaged code or at its
\* removal, and the store is as before the run, for every stream.
C22_CorruptPayloadAborts ==
    /\ (pc = "del" \/ Reconciled) =>
          /\ Undecodable(pre.codes) = {}
          /\ \A k \in (DOMAIN pre.codes) \ StreamKeys(zip.lines) :
                /\ k \in DOMAIN db_codes_removed
                /\ Ok(db_codes_removed[k]) = CodesGetItem(pre.codes, k)
    /\ Undecodable(pre.codes) # {} =>
          /\ n_commit = 0
          /\ Tables(disk) = pre
          /\ pc = "loop" =>
                Undecodable(pre.codes) \subseteq db_codes_to_remove
          /\ pc = "remove" => Undecodable(pre.codes) \subseteq to_visit
          /\ pc = "done" => outcome \in {"up-to-date", "aborted"}
          /\ Aborted => error \in {"zlib.error", "StorageIOError"}
          /\ (Aborted /\ error = "zlib.error") => need_to_update

\* a run wrote a new code, then failed on the removal of the damaged code,
\* which the stream does not carry
C22_Witness ==
    /\ Aborted
    /\ error = "zlib.error"
    /\ Undecodable(pre.codes) # {}
    /\ Undecodable(pre.codes) \cap StreamKeys(zip.lines) = {}
    /\ n_set > 1
    /\ Tables(disk) = pre

====
